---- MODULE Spec2Model ----
(***************************************************************************)
(* The three pipeline steps of PART1_RAG_IMPLEMENTATION/step.py            *)
(* (analyze_query_step, retrieve_step, generate_step) together with the    *)
(* external collaborators they call: the language model, the vector store, *)
(* the prompt template and the transcript file.                            *)
(*                                                                         *)
(* Text is a sequence of tokens.  An optional value is a sequence of       *)
(* length 0 (absent) or 1 (present).  `trace` records, in order, every     *)
(* logger line the steps emit and every external call they make during the *)
(* current invocation, the way a logging handler and call-recording stubs  *)
(* would.  `previous_file` is the transcript as it was when the current    *)
(* invocation started.                                                     *)
(***************************************************************************)
EXTENDS Integers, Sequences, FiniteSets, TLC

VARIABLES pc, question, query_structured, retrieved_docs, generated_answer,
          file, previous_file, trace, error

vars == <<pc, question, query_structured, retrieved_docs, generated_answer,
          file, previous_file, trace, error>>

(* ------------------------------ bounds -------------------------------- *)

MaxDocs == 2

(* --------------------------- program constants ------------------------ *)

K == 8

Placeholder == <<"No specific context found.">>

Separator == <<"\n\n">>

Fallback == <<"N/A">>

(* ------------------------------ inputs -------------------------------- *)

None == <<>>

Some(x) == <<x>>

Val(o) == o[1]

Questions == { <<"What">>, <<"Why", "X">> }

Searches ==
  { [query |-> <<"X">>, section |-> <<"intro">>],
    [query |-> <<"X">>, section |-> <<>>],
    [query |-> <<>>,    section |-> <<"intro">>] }

Passages ==
  { [page_content |-> <<"A">>,      metadata |-> {<<"section", <<"intro">>>>}],
    [page_content |-> <<"B", "b">>, metadata |-> {}],
    [page_content |-> <<"A">>,      metadata |-> {<<"section", <<"sec", "8">>>>}] }

Min(a, b) == IF a < b THEN a ELSE b

RECURSIVE SeqsUpTo(_, _)
SeqsUpTo(S, n) ==
  IF n = 0 THEN { <<>> }
  ELSE LET shorter == SeqsUpTo(S, n - 1)
       IN  shorter \cup { Append(s, x) : s \in shorter, x \in S }

DocLists == SeqsUpTo(Passages, Min(MaxDocs, K))

Answers == { <<"X", "is">>, <<"yes">> }

(* ------------------------ recorded observations ----------------------- *)

Log(tag, arg) == [tag |-> tag, kind |-> "log", arg |-> arg, ok |-> TRUE, ret |-> <<>>]

Call(tag, arg, ret) == [tag |-> tag, kind |-> "call", arg |-> arg, ok |-> TRUE, ret |-> ret]

Raise(tag, arg) == [tag |-> tag, kind |-> "call", arg |-> arg, ok |-> FALSE, ret |-> <<>>]

(* ------------------------------ helpers ------------------------------- *)

RECURSIVE int_to_str(_)
int_to_str(n) ==
  IF n < 10
  THEN << <<"0", "1", "2", "3", "4", "5", "6", "7", "8", "9">>[n + 1] >>
  ELSE int_to_str(n \div 10) \o int_to_str(n % 10)

metadata_get(m, key, default) ==
  IF \E p \in m : p[1] = key
  THEN (CHOOSE p \in m : p[1] = key)[2]
  ELSE default

RECURSIVE join_without_separator(_, _)
join_without_separator(sep, parts) ==
  IF parts = <<>> THEN <<>>
  ELSE parts[1] \o join_without_separator(sep, Tail(parts))

RECURSIVE join(_, _)
join(sep, parts) ==
  IF parts = <<>> THEN <<>>
  ELSE IF Len(parts) = 1 THEN parts[1]
  ELSE parts[1] \o sep \o join(sep, Tail(parts))

page_contents(docs) == [i \in 1..Len(docs) |-> docs[i].page_content]

docs_content_without_placeholder(context_docs) ==
  join(Separator, [i \in 1..Len(context_docs) |-> context_docs[i].page_content])

docs_content(context_docs) ==
  IF context_docs = <<>>
  THEN Placeholder
  ELSE join(Separator, page_contents(context_docs))

prompt_invoke(args) ==
  <<"Question: ">> \o args.question \o <<"Context: ">> \o args.context

open_keeps_content(f, mode) ==
  IF f = None THEN <<>> ELSE Val(f)

open(f, mode) ==
  IF mode = "w" THEN <<>>
  ELSE IF f = None THEN <<>> ELSE Val(f)

chunk_text_from_zero(i, doc) ==
  <<"Document ">> \o int_to_str(i) \o <<" - Section: ">>
    \o metadata_get(doc.metadata, "section", Fallback) \o <<":\n">>
    \o doc.page_content \o <<"\n---\n">>

chunk_text(i, doc) ==
  <<"Document ">> \o int_to_str(i + 1) \o <<" - Section: ">>
    \o metadata_get(doc.metadata, "section", Fallback) \o <<":\n">>
    \o doc.page_content \o <<"\n---\n">>

RECURSIVE write_chunks(_, _, _)
write_chunks(f, context_docs, i) ==
  IF i >= Len(context_docs) THEN f
  ELSE write_chunks(f \o chunk_text(i, context_docs[i + 1]), context_docs, i + 1)

write_head(f, q, context_docs) ==
  write_chunks(f \o (<<"Question:\n">> \o q \o <<"\n\n">>)
                 \o <<"\n--- Retrieved Context Documents ---\n">>,
               context_docs, 0)
    \o <<"Generated Answer:\n">>

(* ------------------------- analyze_query_step ------------------------- *)

analyze_query_step_defaults_section(q, S) ==
  /\ trace' = trace \o << Log("analysis", q),
                          Call("structured_llm.invoke", q, S),
                          Log("structured", S) >>
  /\ query_structured' =
       Some(IF S.section = <<>> THEN [S EXCEPT !.section = Fallback] ELSE S)

analyze_query_step_overrides_query(q, S) ==
  /\ trace' = trace \o << Log("analysis", q),
                          Call("structured_llm.invoke", q, S),
                          Log("structured", S) >>
  /\ query_structured' = Some([S EXCEPT !.query = q])

analyze_query_step(q, S) ==
  /\ trace' = trace \o << Log("analysis", q),
                          Call("structured_llm.invoke", q, S),
                          Log("structured", S) >>
  /\ query_structured' = Some(S)

analyze_query_step_raises(q) ==
  /\ trace' = trace \o << Log("analysis", q),
                          Raise("structured_llm.invoke", q) >>
  /\ error' = "structured_llm.invoke"

(* ----------------------------- retrieve_step -------------------------- *)

retrieve_step_filters_by_section(structured_query, P) ==
  /\ trace' = trace \o << Log("retrieve", structured_query),
                          Call("similarity_search",
                               [query |-> structured_query.query \o structured_query.section,
                                k |-> K], P),
                          Log("retrieved", <<Len(P), structured_query.section>>) >>
  /\ retrieved_docs' = Some(P)

retrieve_step_logs_before_search(structured_query, P) ==
  /\ trace' = trace \o << Log("retrieve", structured_query),
                          Log("retrieved", <<Len(P), structured_query.section>>),
                          Call("similarity_search",
                               [query |-> structured_query.query, k |-> K], P) >>
  /\ retrieved_docs' = Some(P)

retrieve_step(structured_query, P) ==
  /\ trace' = trace \o << Log("retrieve", structured_query),
                          Call("similarity_search",
                               [query |-> structured_query.query, k |-> K], P),
                          Log("retrieved", <<Len(P), structured_query.section>>) >>
  /\ retrieved_docs' = Some(P)

retrieve_step_raises(structured_query) ==
  /\ trace' = trace \o << Log("retrieve", structured_query),
                          Raise("similarity_search",
                                [query |-> structured_query.query, k |-> K]) >>
  /\ error' = "similarity_search"

(* ----------------------------- generate_step -------------------------- *)

prompt_args(q, context_docs) ==
  [question |-> q, context |-> docs_content(context_docs)]

generate_step(q, context_docs, content) ==
  LET args     == prompt_args(q, context_docs)
      messages == prompt_invoke(args)
  IN  /\ trace' = trace \o << Log("generate", q),
                              Call("prompt.invoke", args, messages),
                              Call("llm.invoke", messages, content),
                              Call("open", "w", <<>>),
                              Log("saved", <<>>) >>
      /\ file' = Some(write_head(open(file, "w"), q, context_docs) \o content)
      /\ generated_answer' = Some(content)

generate_step_prompt_raises(q, context_docs) ==
  /\ trace' = trace \o << Log("generate", q),
                          Raise("prompt.invoke", prompt_args(q, context_docs)) >>
  /\ error' = "prompt.invoke"
  /\ file' = file

generate_step_llm_retries(q, context_docs) ==
  LET args     == [question |-> q, context |-> docs_content(context_docs)]
      messages == prompt_invoke(args)
  IN  /\ trace' = trace \o << Log("generate", q),
                              Call("prompt.invoke", args, messages),
                              Raise("llm.invoke", messages),
                              Raise("llm.invoke", messages) >>
      /\ error' = "llm.invoke"
      /\ file' = file

generate_step_llm_raises_after_open(q, context_docs) ==
  LET args     == [question |-> q, context |-> docs_content(context_docs)]
      messages == prompt_invoke(args)
  IN  /\ trace' = trace \o << Log("generate", q),
                              Call("prompt.invoke", args, messages),
                              Call("open", "w", <<>>),
                              Raise("llm.invoke", messages) >>
      /\ error' = "llm.invoke"
      /\ file' = Some(open(file, "w"))

generate_step_llm_raises(q, context_docs) ==
  LET args     == prompt_args(q, context_docs)
      messages == prompt_invoke(args)
  IN  /\ trace' = trace \o << Log("generate", q),
                              Call("prompt.invoke", args, messages),
                              Raise("llm.invoke", messages) >>
      /\ error' = "llm.invoke"
      /\ file' = file

generate_step_open_raises(q, context_docs, content) ==
  LET args     == prompt_args(q, context_docs)
      messages == prompt_invoke(args)
  IN  /\ trace' = trace \o << Log("generate", q),
                              Call("prompt.invoke", args, messages),
                              Call("llm.invoke", messages, content),
                              Raise("open", "w") >>
      /\ error' = "open"
      /\ file' = file

generate_step_write_raises(q, context_docs, content) ==
  LET args     == prompt_args(q, context_docs)
      messages == prompt_invoke(args)
  IN  /\ trace' = trace \o << Log("generate", q),
                              Call("prompt.invoke", args, messages),
                              Call("llm.invoke", messages, content),
                              Call("open", "w", <<>>),
                              Raise("write", content) >>
      /\ error' = "write"
      /\ file' = Some(write_head(open(file, "w"), q, context_docs))

(* ------------------------------ pipeline ------------------------------ *)

Init ==
  /\ pc = "idle"
  /\ question = <<>>
  /\ query_structured = None
  /\ retrieved_docs = None
  /\ generated_answer = None
  /\ file = None
  /\ previous_file = None
  /\ trace = <<>>
  /\ error = "none"

Invoke ==
  /\ pc \in {"idle", "done", "failed"}
  /\ \E q \in Questions : question' = q
  /\ pc' = "analyze"
  /\ query_structured' = None
  /\ retrieved_docs' = None
  /\ generated_answer' = None
  /\ trace' = <<>>
  /\ error' = "none"
  /\ previous_file' = file
  /\ UNCHANGED file

Analyze ==
  /\ pc = "analyze"
  /\ \E S \in Searches : analyze_query_step(question, S)
  /\ pc' = "retrieve"
  /\ UNCHANGED <<question, retrieved_docs, generated_answer, file, previous_file, error>>

AnalyzeFails ==
  /\ pc = "analyze"
  /\ analyze_query_step_raises(question)
  /\ pc' = "failed"
  /\ UNCHANGED <<question, query_structured, retrieved_docs, generated_answer, file, previous_file>>

Retrieve ==
  /\ pc = "retrieve"
  /\ \E P \in DocLists : retrieve_step(Val(query_structured), P)
  /\ pc' = "generate"
  /\ UNCHANGED <<question, query_structured, generated_answer, file, previous_file, error>>

RetrieveFails ==
  /\ pc = "retrieve"
  /\ retrieve_step_raises(Val(query_structured))
  /\ pc' = "failed"
  /\ UNCHANGED <<question, query_structured, retrieved_docs, generated_answer, file, previous_file>>

Generate ==
  /\ pc = "generate"
  /\ \E content \in Answers : generate_step(question, Val(retrieved_docs), content)
  /\ pc' = "done"
  /\ UNCHANGED <<question, query_structured, retrieved_docs, previous_file, error>>

GeneratePromptFails ==
  /\ pc = "generate"
  /\ generate_step_prompt_raises(question, Val(retrieved_docs))
  /\ pc' = "failed"
  /\ UNCHANGED <<question, query_structured, retrieved_docs, generated_answer,
                 previous_file>>

GenerateLlmFails ==
  /\ pc = "generate"
  /\ generate_step_llm_raises(question, Val(retrieved_docs))
  /\ pc' = "failed"
  /\ UNCHANGED <<question, query_structured, retrieved_docs, generated_answer,
                 previous_file>>

GenerateOpenFails ==
  /\ pc = "generate"
  /\ \E content \in Answers :
       generate_step_open_raises(question, Val(retrieved_docs), content)
  /\ pc' = "failed"
  /\ UNCHANGED <<question, query_structured, retrieved_docs, generated_answer,
                 previous_file>>

GenerateWriteFails ==
  /\ pc = "generate"
  /\ \E content \in Answers :
       generate_step_write_raises(question, Val(retrieved_docs), content)
  /\ pc' = "failed"
  /\ UNCHANGED <<question, query_structured, retrieved_docs, generated_answer,
                 previous_file>>

Next ==
  \/ Invoke
  \/ Analyze
  \/ AnalyzeFails
  \/ Retrieve
  \/ RetrieveFails
  \/ Generate
  \/ GeneratePromptFails
  \/ GenerateLlmFails
  \/ GenerateOpenFails
  \/ GenerateWriteFails

Spec == Init /\ [][Next]_vars

(* --------------------------- reading the trace ------------------------ *)

Calls(tag) == SelectSeq(trace, LAMBDA e : e.kind = "call" /\ e.tag = tag)

Tags == [i \in 1..Len(trace) |-> trace[i].tag]

IsPrefix(s, t) == Len(s) <= Len(t) /\ SubSeq(t, 1, Len(s)) = s

At(t, pos, s) ==
  /\ pos >= 1
  /\ pos + Len(s) - 1 <= Len(t)
  /\ SubSeq(t, pos, pos + Len(s) - 1) = s

Count(t, token) == Cardinality({ i \in 1..Len(t) : t[i] = token })

RECURSIVE TotalLen(_)
TotalLen(parts) ==
  IF parts = <<>> THEN 0 ELSE Len(Head(parts)) + TotalLen(Tail(parts))

StepOrder ==
  << "analysis", "structured_llm.invoke", "structured",
     "retrieve", "similarity_search", "retrieved",
     "generate", "prompt.invoke", "llm.invoke", "open", "saved" >>

(* ------------------------------- C1 ----------------------------------- *)

(* C1: once retrieve_step has returned, exactly one similarity search was   *)
(* issued, its request is the structured query's query text with k = 8 and  *)
(* nothing of the section, the value returned is exactly the sequence the   *)
(* index returned, in the same order, and retrieve_step did not raise       *)
(* (also for the empty sequence).                                           *)
C1_RetrieveReturnsIndexResult ==
  retrieved_docs # None =>
    LET searches == Calls("similarity_search")
    IN  /\ Len(searches) = 1
        /\ searches[1].ok
        /\ searches[1].arg = [query |-> Val(query_structured).query, k |-> 8]
        /\ Val(retrieved_docs) = searches[1].ret
        /\ Len(Val(retrieved_docs)) <= 8
        /\ pc = "generate" => error = "none"

C1_Witness ==
  /\ pc = "generate"
  /\ Len(Val(retrieved_docs)) = 2
  /\ Val(retrieved_docs)[1] # Val(retrieved_docs)[2]
  /\ Val(query_structured).section = <<>>

(* ------------------------------- C2 ----------------------------------- *)

(* C2: with an empty passage sequence the prompt template receives the     *)
(* context "No specific context found.", the model is invoked with the     *)
(* formatted prompt, the answer returned is the model's text, and the call *)
(* ends without an answer only when an external call raised.               *)
C2_EmptyContextPlaceholder ==
  (retrieved_docs = Some(<<>>) /\ pc \in {"done", "failed"}) =>
    LET prompts == Calls("prompt.invoke")
        invokes == Calls("llm.invoke")
    IN  /\ Len(prompts) = 1
        /\ prompts[1].arg.context = <<"No specific context found.">>
        /\ generated_answer = None => ~ trace[Len(trace)].ok
        /\ generated_answer # None =>
             /\ Len(invokes) = 1
             /\ invokes[1].arg = prompts[1].ret
             /\ Val(generated_answer) = invokes[1].ret

C2_Witness ==
  /\ pc = "done"
  /\ retrieved_docs = Some(<<>>)
  /\ generated_answer # None

(* ------------------------------- C3 ----------------------------------- *)

ContextStart(contents, i) == TotalLen(SubSeq(contents, 1, i - 1)) + i

(* C3: with passages p1..pn, n >= 1, the prompt template receives the      *)
(* question unchanged and a context made of the passage contents in rank   *)
(* order, each once, with one blank-line separator between neighbours; the *)
(* model is invoked once with the formatted prompt and the answer returned *)
(* is the response's content.                                              *)
C3_ContextIsJoinedPassages ==
  (retrieved_docs # None /\ retrieved_docs # Some(<<>>) /\ pc \in {"done", "failed"}) =>
    LET docs     == Val(retrieved_docs)
        contents == [i \in 1..Len(docs) |-> docs[i].page_content]
        prompts  == Calls("prompt.invoke")
        invokes  == Calls("llm.invoke")
        context  == prompts[1].arg.context
    IN  /\ Len(prompts) = 1
        /\ prompts[1].arg.question = question
        /\ Len(context) = TotalLen(contents) + Len(docs) - 1
        /\ \A i \in 1..Len(docs) : At(context, ContextStart(contents, i), contents[i])
        /\ \A i \in 2..Len(docs) : context[ContextStart(contents, i) - 1] = "\n\n"
        /\ Len(invokes) <= 1
        /\ generated_answer # None =>
             /\ Len(invokes) = 1
             /\ invokes[1].arg = prompts[1].ret
             /\ Val(generated_answer) = invokes[1].ret

C3_Witness ==
  /\ pc = "done"
  /\ Len(Val(retrieved_docs)) = 2
  /\ Val(retrieved_docs)[1].page_content # Val(retrieved_docs)[2].page_content

(* ------------------------------- C4 ----------------------------------- *)

SectionLabel(doc) ==
  IF \E p \in doc.metadata : p[1] = "section"
  THEN (CHOOSE p \in doc.metadata : p[1] = "section")[2]
  ELSE <<"N/A">>

DocumentLabel(i, doc) ==
  << "Document ", <<"1", "2", "3", "4", "5", "6", "7", "8">>[i], " - Section: " >>
    \o SectionLabel(doc)

EntryLen(i, doc) == Len(DocumentLabel(i, doc)) + 1 + Len(doc.page_content) + 1

RECURSIVE EntryStart(_, _, _)
EntryStart(q, docs, i) ==
  IF i = 1 THEN Len(q) + 4
  ELSE EntryStart(q, docs, i - 1) + EntryLen(i - 1, docs[i - 1])

(* C4: after a successful generate_step the transcript holds the question, *)
(* then one entry per passage in rank order labelled                       *)
(* "Document i - Section: <section or N/A>" with i counted from 1 and      *)
(* followed by the passage content, then the answer, which is the answer   *)
(* returned to the caller.                                                 *)
C4_TranscriptLayout ==
  pc = "done" =>
    /\ file # None
    /\ LET t    == Val(file)
           docs == Val(retrieved_docs)
           a    == Val(generated_answer)
           n    == Len(docs)
       IN  /\ At(t, 2, question)
           /\ Count(t, "Document ") = n
           /\ \A i \in 1..n :
                /\ At(t, EntryStart(question, docs, i), DocumentLabel(i, docs[i]))
                /\ At(t, EntryStart(question, docs, i) + Len(DocumentLabel(i, docs[i])) + 1,
                      docs[i].page_content)
           /\ t[EntryStart(question, docs, n + 1)] = "Generated Answer:\n"
           /\ At(t, EntryStart(question, docs, n + 1) + 1, a)
           /\ Len(t) = EntryStart(question, docs, n + 1) + Len(a)
           /\ a = Calls("llm.invoke")[1].ret

C4_Witness ==
  /\ pc = "done"
  /\ Len(Val(retrieved_docs)) = 2
  /\ Val(retrieved_docs)[1].metadata = {}
  /\ Val(retrieved_docs)[2].metadata # {}

(* ------------------------------- C5 ----------------------------------- *)

(* C5: after a successful run the transcript holds exactly one question    *)
(* header, the current question, one entry per current passage and one     *)
(* answer block, whatever the transcript held before the run.              *)
C5_TranscriptOverwritten ==
  pc = "done" =>
    /\ file # None
    /\ LET t == Val(file)
       IN  /\ t[1] = "Question:\n"
           /\ Count(t, "Question:\n") = 1
           /\ Count(t, "\n--- Retrieved Context Documents ---\n") = 1
           /\ Count(t, "Generated Answer:\n") = 1
           /\ Count(t, "\n---\n") = Len(Val(retrieved_docs))
           /\ SubSeq(t, 2, Len(question) + 1) = question
           /\ SubSeq(t, Len(t) - Len(Val(generated_answer)) + 1, Len(t))
                = Val(generated_answer)

C5_Witness ==
  /\ pc = "done"
  /\ previous_file # None
  /\ previous_file # file
  /\ Len(Val(previous_file)) > Len(Val(file))
  /\ Count(Val(previous_file), "Generated Answer:\n") = 1

(* ------------------------------- C6 ----------------------------------- *)

(* C6: when an external call has raised, it is the last thing the          *)
(* invocation did, it was attempted once, every earlier call succeeded,    *)
(* the steps after it did not run and no answer was returned.              *)
C6_FailurePropagates ==
  error # "none" =>
    /\ pc = "failed"
    /\ generated_answer = None
    /\ trace # <<>>
    /\ trace[Len(trace)].kind = "call"
    /\ ~ trace[Len(trace)].ok
    /\ trace[Len(trace)].tag = error
    /\ Len(Calls(error)) = 1
    /\ \A i \in 1..(Len(trace) - 1) : trace[i].ok
    /\ error = "structured_llm.invoke" =>
         /\ query_structured = None
         /\ retrieved_docs = None
         /\ Calls("similarity_search") = <<>>
         /\ Calls("llm.invoke") = <<>>
    /\ error = "similarity_search" => retrieved_docs = None
    /\ error \in {"structured_llm.invoke", "similarity_search", "prompt.invoke", "llm.invoke"} =>
         Calls("open") = <<>>

C6_Witness ==
  /\ error = "llm.invoke"
  /\ pc = "failed"
  /\ previous_file # None

(* ------------------------------- C7 ----------------------------------- *)

C8_FieldsNonEmpty ==
  query_structured # None =>
    /\ Val(query_structured).query # <<>>
    /\ Val(query_structured).section # <<>>

(* C8 amended: a field of the StructuredQuery analyze_query_step returns   *)
(* is empty exactly when that field of the model's structured output is    *)
(* empty; there is no local validation or defaulting.                      *)
C8_FieldsAsModelProduced ==
  query_structured # None =>
    LET out == Calls("structured_llm.invoke")[1].ret
    IN  /\ (Val(query_structured).query = <<>>) <=> (out.query = <<>>)
        /\ (Val(query_structured).section = <<>>) <=> (out.section = <<>>)

C8_Witness ==
  /\ pc = "retrieve"
  /\ Val(query_structured).section = <<>>
  /\ Calls("structured_llm.invoke")[1].ret.section = <<>>

(* ------------------------------- C9 ----------------------------------- *)

(* C9: when analyze_query_step has returned, the structured-output model   *)
(* was invoked once, with the question, and the value returned is the      *)
(* StructuredQuery the model returned, unmodified.                         *)
C9_AnalyzerReturnsModelOutput ==
  query_structured # None =>
    LET structured == Calls("structured_llm.invoke")
    IN  /\ Len(structured) = 1
        /\ structured[1].arg = question
        /\ question # <<>>
        /\ Val(query_structured) = structured[1].ret

C9_Witness ==
  /\ pc = "retrieve"
  /\ query_structured = Some([query |-> <<"X">>, section |-> <<"intro">>])
  /\ question = <<"Why", "X">>

(* ------------------------------- C10 ---------------------------------- *)

(* C10: when prompt formatting or the model invocation raised, the         *)
(* transcript is what it was when the invocation started and was never     *)
(* opened; when generate_step has returned an answer, the transcript was   *)
(* opened after the model returned and ends with that answer.              *)
C10_TranscriptAfterModel ==
  /\ error \in {"prompt.invoke", "llm.invoke"} =>
       /\ file = previous_file
       /\ Calls("open") = <<>>
  /\ pc \in {"analyze", "retrieve", "generate"} => file = previous_file
  /\ generated_answer # None =>
       /\ file # None
       /\ Len(trace) = 11
       /\ trace[9].tag = "llm.invoke" /\ trace[9].ok
       /\ trace[10].tag = "open" /\ trace[10].ok
       /\ LET t == Val(file)
              a == Val(generated_answer)
          IN  /\ Len(t) > Len(a)
              /\ t[Len(t) - Len(a)] = "Generated Answer:\n"
              /\ \A i \in 1..Len(a) : t[Len(t) - Len(a) + i] = a[i]

C10_Witness ==
  /\ error = "prompt.invoke"
  /\ previous_file # None
  /\ file = previous_file

====
